---- MODULE Spec2Model ----
(***************************************************************************)
(* vg/recorder: a vg.Canvas that records every primitive call as an Action *)
(* in an ordered log.  The model keeps Go's slice semantics (a slice is a   *)
(* header over a backing array that other headers may share), the per-type  *)
(* VgCall renderings as token sequences, and runtime.Caller as a lookup in  *)
(* the call stack.                                                          *)
(***************************************************************************)
EXTENDS Integers, Sequences, FiniteSets, TLC

VARIABLES c, c2, mem, callerBase, callerMem, ctor, last, ncalls

vars == <<c, c2, mem, callerBase, callerMem, ctor, last, ncalls>>

(***************************************************************************)
(* Bounds of the model.                                                     *)
(***************************************************************************)
\* largest capacity of the baseline slice handed to New (its length is any
\* length up to its capacity)
MaxCap == 1
\* primitive calls made on the canvas in one run
MaxCalls == 2

(***************************************************************************)
(* Argument values the callers draw from.  vg.Length and the float64        *)
(* arguments are represented by small integers.                             *)
(***************************************************************************)
Lengths == {1, 2}

Widths == {1}

Resolutions == {72, 96}

\* color.Gray16 values (color.Black, color.White)
Colors == {[Y |-> 65535]}

PathComp(t, x, y) == [Type |-> t, X |-> x, Y |-> y, Radius |-> 0, Start |-> 0, Angle |-> 0]

\* vg.MoveComp = 0, vg.LineComp = 1
PathComps == {PathComp(0, 3, 4), PathComp(1, 1, 2)}

Fonts == {[name |-> "Foo", Size |-> 12]}

Strings == {"Bar"}

\* the file and line of the external code making the n-th primitive call: the
\* caller is a straight-line test body, one call per line
CallSite(n) == [file |-> "recorder_test.go", line |-> 16 + n]

(***************************************************************************)
(* Slices of lengths and of path components.  A record owns the array that  *)
(* a primitive allocated for it (arr = "own": nobody else holds it, so it   *)
(* is kept by value); a caller's slice refers to the caller's array in      *)
(* callerMem (arr = "dashes" or "path").                                    *)
(***************************************************************************)
NilSlice == [arr |-> "nil", elems |-> <<>>, len |-> 0]

CallerSlice(which, n) == [arr |-> which, elems |-> <<>>, len |-> n]

Deref(s, cm) ==
  CASE s.arr = "nil" -> <<>>
    [] s.arr = "own" -> s.elems
    [] OTHER -> SubSeq(cm[s.arr], 1, s.len)

\* the record keeping the caller's slice itself
CopyAlias(s, cm) == s

\* append([]T(nil), s...): a new array holding s's elements; nil when s is empty

CopySlice(s, cm) ==
  IF s.len = 0 THEN NilSlice
  ELSE [arr |-> "own", elems |-> Deref(s, cm), len |-> s.len]

(***************************************************************************)
(* callRecorder                                                             *)
(***************************************************************************)
NoCaller == [haveCaller |-> FALSE, file |-> "", line |-> 0]

\* the frames above runtime.Caller when a primitive called at `site` records
\* its caller: callRecorder.caller, Canvas.append, the primitive, the caller
AppendLine ==
  [SetWidth |-> 100, SetLineDash |-> 122, SetColor |-> 146, Rotate |-> 167,
   Translate |-> 188, Scale |-> 209, Push |-> 228, Pop |-> 247, Stroke |-> 268,
   Fill |-> 289, FillString |-> 313, DPI |-> 337]

CallStack(type, site) ==
  << [file |-> "recorder.go", line |-> 50],
     [file |-> "recorder.go", line |-> 77],
     [file |-> "recorder.go", line |-> AppendLine[type]],
     site >>

\* runtime.Caller(skip): file, line and ok of the frame skip levels above its
\* caller; ok is false (file "", line 0) when the information is unavailable
RuntimeCaller(stack, skip, avail) ==
  IF avail /\ skip + 1 <= Len(stack)
  THEN [haveCaller |-> TRUE, file |-> stack[skip + 1].file, line |-> stack[skip + 1].line]
  ELSE NoCaller

\* the capturer asking for the frame two levels up, the primitive's frame
callerSkip2(stack, avail) == RuntimeCaller(stack, 2, avail)

caller(stack, avail) == RuntimeCaller(stack, 3, avail)

\* callRecorder.String
crString(cr) ==
  IF ~cr.haveCaller THEN <<>>
  ELSE <<cr.file, ":", ToString(cr.line), " ">>

(***************************************************************************)
(* The Action types, as built by the primitives (cr is the zero value).     *)
(***************************************************************************)
NilAction == [type |-> "nil"]

NewSetWidth(w) == [type |-> "SetWidth", Length |-> w, cr |-> NoCaller]

NewSetLineDash(dashes, offs, cm) ==
  [type |-> "SetLineDash", Dashes |-> CopySlice(dashes, cm), Offsets |-> offs, cr |-> NoCaller]

NewSetColor(col) == [type |-> "SetColor", Color |-> col, cr |-> NoCaller]

NewRotate(a) == [type |-> "Rotate", Angle |-> a, cr |-> NoCaller]

\* Translate recording x twice
NewTranslateXX(x, y) == [type |-> "Translate", X |-> x, Y |-> x, cr |-> NoCaller]

NewTranslate(x, y) == [type |-> "Translate", X |-> x, Y |-> y, cr |-> NoCaller]

NewScale(x, y) == [type |-> "Scale", X |-> x, Y |-> y, cr |-> NoCaller]

NewPush == [type |-> "Push", cr |-> NoCaller]

NewPop == [type |-> "Pop", cr |-> NoCaller]

NewStroke(path, cm) == [type |-> "Stroke", Path |-> CopySlice(path, cm), cr |-> NoCaller]

NewFill(path, cm) == [type |-> "Fill", Path |-> CopySlice(path, cm), cr |-> NoCaller]

NewFillString(font, x, y, str) ==
  [type |-> "FillString", Font |-> font.name, Size |-> font.Size,
   X |-> x, Y |-> y, String |-> str, cr |-> NoCaller]

NewDPI == [type |-> "DPI", cr |-> NoCaller]

(***************************************************************************)
(* fmt: renderings as sequences of text tokens.                             *)
(***************************************************************************)
RECURSIVE Join(_, _)
\* the renderings in ts, separated by sep
Join(ts, sep) ==
  IF Len(ts) = 0 THEN <<>>
  ELSE IF Len(ts) = 1 THEN ts[1]
  ELSE ts[1] \o sep \o Join(Tail(ts), sep)

\* %v of a float64 or a vg.Length
FmtV(n) == <<ToString(n)>>

\* %q of a string (the strings of the model need no escaping)
FmtQ(s) == <<"\"", s, "\"">>

\* %#v of a color.Gray16
FmtColor(col) == <<"color.Gray16{Y:0x", IF col.Y = 0 THEN "0" ELSE "ffff", "}">>

\* %#v of a vg.PathComp
FmtPathComp(p) ==
  <<"vg.PathComp{", "Type:", ToString(p.Type), ", ", "X:", ToString(p.X), ", ",
    "Y:", ToString(p.Y), ", ", "Radius:", ToString(p.Radius), ", ",
    "Start:", ToString(p.Start), ", ", "Angle:", ToString(p.Angle), "}">>

\* %#v of a slice: T(nil) when nil, else T{e1, e2, ...}
FmtPath(s, cm) ==
  IF s.arr = "nil" THEN <<"vg.Path", "(nil)">>
  ELSE LET es == Deref(s, cm) IN
       <<"vg.Path", "{">> \o Join([i \in 1..Len(es) |-> FmtPathComp(es[i])], <<", ">>) \o <<"}">>

FmtDashes(s, cm) ==
  IF s.arr = "nil" THEN <<"[]vg.Length", "(nil)">>
  ELSE LET es == Deref(s, cm) IN
       <<"[]vg.Length", "{">> \o Join([i \in 1..Len(es) |-> FmtV(es[i])], <<", ">>) \o <<"}">>

\* %s of a pointer to a struct whose only field is the unexported cr: fmt
\* prints the struct by reflection, without calling callRecorder.String
FmtPtrS(a) ==
  <<"&{", "{", "%!s(bool=", IF a.cr.haveCaller THEN "true" ELSE "false", ")", " ",
    a.cr.file, " ", "%!s(int=", ToString(a.cr.line), ")", "}", "}">>

VgCall(a, cm) ==
  CASE a.type = "SetWidth" ->
         crString(a.cr) \o <<"SetWidth", "(">> \o FmtV(a.Length) \o <<")">>
    [] a.type = "SetLineDash" ->
         crString(a.cr) \o <<"SetLineDash", "(">> \o FmtDashes(a.Dashes, cm) \o <<", ">>
           \o FmtV(a.Offsets) \o <<")">>
    [] a.type = "SetColor" ->
         crString(a.cr) \o <<"SetColor", "(">> \o FmtColor(a.Color) \o <<")">>
    [] a.type = "Rotate" ->
         crString(a.cr) \o <<"Rotate", "(">> \o FmtV(a.Angle) \o <<")">>
    [] a.type = "Translate" ->
         crString(a.cr) \o <<"Translate", "(">> \o FmtV(a.X) \o <<", ">> \o FmtV(a.Y) \o <<")">>
    [] a.type = "Scale" ->
         crString(a.cr) \o <<"Scale", "(">> \o FmtV(a.X) \o <<", ">> \o FmtV(a.Y) \o <<")">>
    [] a.type = "Push" -> FmtPtrS(a) \o <<"Push", "(", ")">>
    [] a.type = "Pop" -> FmtPtrS(a) \o <<"Pop", "(", ")">>
    [] a.type = "Stroke" ->
         crString(a.cr) \o <<"Stroke", "(">> \o FmtPath(a.Path, cm) \o <<")">>
    [] a.type = "Fill" ->
         crString(a.cr) \o <<"Fill", "(">> \o FmtPath(a.Path, cm) \o <<")">>
    [] a.type = "FillString" ->
         crString(a.cr) \o <<"FillString", "(">> \o FmtQ(a.Font) \o <<", ">> \o FmtV(a.Size)
           \o <<", ">> \o FmtV(a.X) \o <<", ">> \o FmtV(a.Y) \o <<", ">> \o FmtQ(a.String)
           \o <<")">>
    [] a.type = "DPI" -> FmtPtrS(a) \o <<"DPI", "(", ")">>

(***************************************************************************)
(* []Action slices.  A slice header names its backing array ("nil" for the  *)
(* nil slice), its length and its capacity; mem holds the arrays: "base" is *)
(* the array of the baseline slice the caller handed to New, "own" the      *)
(* array that append allocated for the canvas.  A second canvas c2 built    *)
(* from the same baseline slice has its own such array, mem.own2, which its *)
(* headers also name "own".                                                 *)
(***************************************************************************)
NilActions == [arr |-> "nil", len |-> 0, cap |-> 0]

SliceVal(s, m) == IF s.arr = "nil" THEN <<>> ELSE SubSeq(m[s.arr], 1, s.len)

Nils(n) == [i \in 1..n |-> NilAction]

\* the capacity the Go runtime gives the array that append allocates when the
\* old one (capacity cap, full) cannot take one more element: it doubles
GrowCap(cap) == IF cap = 0 THEN 1 ELSE 2 * cap

\* the built-in append(s, x): in place when s has spare capacity, else into a
\* newly allocated array (the canvas's previous own array, which only
\* c.Actions referred to, is then unreachable and is dropped)
GoAppend(s, m, x) ==
  IF s.len < s.cap
  THEN [s |-> [s EXCEPT !.len = s.len + 1],
        m |-> [m EXCEPT ![s.arr][s.len + 1] = x]]
  ELSE [s |-> [arr |-> "own", len |-> s.len + 1, cap |-> GrowCap(s.cap)],
        m |-> [m EXCEPT !.own = SliceVal(s, m) \o <<x>> \o Nils(GrowCap(s.cap) - s.len - 1)]]

(***************************************************************************)
(* Canvas                                                                   *)
(***************************************************************************)
\* New leaving the log empty instead of starting it as the baseline
NewEmptyLog(dpi, base) ==
  [Resolution |-> dpi, Actions |-> NilActions, Base |-> base, KeepCaller |-> FALSE]

New(dpi, base) ==
  [Resolution |-> dpi, Actions |-> base, Base |-> base, KeepCaller |-> FALSE]

BaseVal == SliceVal(c.Base, mem)

ActionsVal == SliceVal(c.Actions, mem)

\* c.Actions[:len(c.Base)] is in range
ResetInRange(cv) == cv.Base.len <= cv.Actions.cap

\* Reset as c.Actions = c.Actions[:0]
ResetToEmpty(cv, m) ==
  [c |-> [cv EXCEPT !.Actions = [cv.Actions EXCEPT !.len = 0]], mem |-> m]

\* Reset as copy(c.Actions, c.Base) alone, without the truncation
ResetNoTruncate(cv, m) ==
  LET n == cv.Base.len
      b == SliceVal(cv.Base, m)
  IN [c   |-> cv,
      mem |-> IF cv.Actions.arr = "nil" THEN m
              ELSE [m EXCEPT ![cv.Actions.arr] =
                               [i \in 1..Len(@) |-> IF i <= n THEN b[i] ELSE @[i]]]]

\* c.Actions = c.Actions[:len(c.Base)]; copy(c.Actions, c.Base)
Reset(cv, m) ==
  LET n == cv.Base.len
      s == [cv.Actions EXCEPT !.len = n]
      b == SliceVal(cv.Base, m)
  IN [c   |-> [cv EXCEPT !.Actions = s],
      mem |-> IF s.arr = "nil" THEN m
              ELSE [m EXCEPT ![s.arr] = [i \in 1..Len(@) |-> IF i <= n THEN b[i] ELSE @[i]]]]

\* append stamping the records of the log instead of the new record
appendStampLog(cv, m, a, stack, avail) ==
  LET m2 == IF cv.KeepCaller /\ cv.Actions.arr # "nil"
            THEN [m EXCEPT ![cv.Actions.arr] =
                    [i \in 1..Len(@) |-> IF i <= cv.Actions.len
                                          THEN [@[i] EXCEPT !.cr = caller(stack, avail)]
                                          ELSE @[i]]]
            ELSE m
      r  == GoAppend(cv.Actions, m2, a)
  IN [c |-> [cv EXCEPT !.Actions = r.s], mem |-> r.m]

\* Canvas.append: stamp a when KeepCaller is set, then append it to c.Actions
append(cv, m, a, stack, avail) ==
  LET a2 == IF cv.KeepCaller THEN [a EXCEPT !.cr = caller(stack, avail)] ELSE a
      r  == GoAppend(cv.Actions, m, a2)
  IN [c |-> [cv EXCEPT !.Actions = r.s], mem |-> r.m]

\* DPI answering a fixed default resolution
DPIDefault(cv) == 72

\* Canvas.DPI's result
DPIResult(cv) == cv.Resolution

(***************************************************************************)
(* Initial states: the canvas right after New(dpi, baseline), and a second  *)
(* canvas made by New from the same baseline slice.                         *)
(***************************************************************************)
\* the records a caller puts in a baseline
BaseActions == {NewFillString([name |-> "Foo", Size |-> 12], 0, 10, "Bar")}

NoSite == [file |-> "", line |-> 0]

NoArgs == [none |-> TRUE]

Init ==
  \E dpi \in Resolutions, cap \in 0..MaxCap, isnil \in BOOLEAN :
    \E n \in 0..cap :
    \E content \in [1..n -> BaseActions] :
      /\ isnil => cap = 0
      /\ callerBase = IF isnil THEN NilActions
                      ELSE [arr |-> "base", len |-> n, cap |-> cap]
      /\ mem = [base |-> content \o Nils(cap - n), own |-> <<>>, own2 |-> <<>>]
      /\ c = New(dpi, callerBase)
      /\ c2 = New(dpi, callerBase)
      /\ callerMem = [dashes |-> <<1, 2>>, path |-> <<PathComp(0, 3, 4)>>]
      /\ ctor = [dpi |-> dpi, baseline |-> content]
      /\ last = [op |-> "New", args |-> NoArgs, site |-> NoSite, avail |-> FALSE,
                 keep |-> FALSE, ret |-> 0]
      /\ ncalls = 0

(***************************************************************************)
(* The primitives.  Each builds its record and hands it to Canvas.append;   *)
(* site is the caller's file and line, avail whether runtime.Caller can     *)
(* report it, and last remembers the call.                                  *)
(***************************************************************************)
Call(op, a, args, ret, site, avail) ==
  /\ ncalls < MaxCalls
  /\ ncalls' = ncalls + 1
  /\ LET r == append(c, mem, a, CallStack(a.type, site), avail)
     IN /\ c' = r.c
        /\ mem' = r.mem
  /\ last' = [op |-> op, args |-> args, site |-> site, avail |-> avail,
              keep |-> c.KeepCaller, ret |-> ret]
  /\ UNCHANGED <<c2, callerBase, callerMem, ctor>>

\* what runtime.Caller can answer; it is asked only when KeepCaller is set
Avail == IF c.KeepCaller THEN BOOLEAN ELSE {TRUE}

\* the slices of its dash array and of its path array that a caller passes
DashArgs == {NilSlice, CallerSlice("dashes", Len(callerMem.dashes))}

PathArgs == {CallerSlice("path", Len(callerMem.path))}

SetLineWidth ==
  \E w \in Widths, site \in {CallSite(ncalls + 1)}, avail \in Avail :
    Call("SetLineWidth", NewSetWidth(w), [w |-> w], 0, site, avail)

SetLineDash ==
  \E dashes \in DashArgs, offs \in {0}, site \in {CallSite(ncalls + 1)}, avail \in Avail :
    Call("SetLineDash", NewSetLineDash(dashes, offs, callerMem),
         [dashes |-> Deref(dashes, callerMem), offs |-> offs], 0, site, avail)

SetColor ==
  \E col \in Colors, site \in {CallSite(ncalls + 1)}, avail \in Avail :
    Call("SetColor", NewSetColor(col), [col |-> col], 0, site, avail)

Rotate ==
  \E a \in {72}, site \in {CallSite(ncalls + 1)}, avail \in Avail :
    Call("Rotate", NewRotate(a), [a |-> a], 0, site, avail)

Translate ==
  \E x \in {1}, y \in {2}, site \in {CallSite(ncalls + 1)}, avail \in Avail :
    Call("Translate", NewTranslate(x, y), [x |-> x, y |-> y], 0, site, avail)

Scale ==
  \E x \in {1}, y \in {2}, site \in {CallSite(ncalls + 1)}, avail \in Avail :
    Call("Scale", NewScale(x, y), [x |-> x, y |-> y], 0, site, avail)

Push ==
  \E site \in {CallSite(ncalls + 1)}, avail \in Avail :
    Call("Push", NewPush, NoArgs, 0, site, avail)

Pop ==
  \E site \in {CallSite(ncalls + 1)}, avail \in Avail :
    Call("Pop", NewPop, NoArgs, 0, site, avail)

Stroke ==
  \E path \in PathArgs, site \in {CallSite(ncalls + 1)}, avail \in Avail :
    Call("Stroke", NewStroke(path, callerMem), [path |-> Deref(path, callerMem)],
         0, site, avail)

Fill ==
  \E path \in PathArgs, site \in {CallSite(ncalls + 1)}, avail \in Avail :
    Call("Fill", NewFill(path, callerMem), [path |-> Deref(path, callerMem)],
         0, site, avail)

FillString ==
  \E font \in Fonts, x \in {0}, y \in {10}, str \in Strings,
     site \in {CallSite(ncalls + 1)}, avail \in Avail :
    Call("FillString", NewFillString(font, x, y, str),
         [font |-> font, x |-> x, y |-> y, str |-> str], 0, site, avail)

DPI ==
  \E site \in {CallSite(ncalls + 1)}, avail \in Avail :
    Call("DPI", NewDPI, NoArgs, DPIResult(c), site, avail)

\* r.KeepCaller = b, an assignment by the code that holds the canvas
SetKeepCaller ==
  \E b \in BOOLEAN :
    /\ c' = [c EXCEPT !.KeepCaller = b]
    /\ UNCHANGED <<c2, mem, callerBase, callerMem, ctor, last, ncalls>>

DoReset ==
  /\ ResetInRange(c)
  /\ LET r == Reset(c, mem) IN c' = r.c /\ mem' = r.mem
  /\ last' = [op |-> "Reset", args |-> NoArgs, site |-> NoSite, avail |-> FALSE,
              keep |-> FALSE, ret |-> 0]
  /\ UNCHANGED <<c2, callerBase, callerMem, ctor, ncalls>>

(***************************************************************************)
(* The code that holds the canvas also holds the slices it passed in: the   *)
(* baseline slice given to New, and the dash and path slices given to       *)
(* SetLineDash, Stroke and Fill.  It may write to them afterwards.          *)
(***************************************************************************)
\* baseline[i] = a
CallerOverwriteBase ==
  \E i \in 1..callerBase.len, a \in {NewPop} :
    /\ mem' = [mem EXCEPT !.base[i] = a]
    /\ UNCHANGED <<c, c2, callerBase, callerMem, ctor, last, ncalls>>

\* baseline = append(baseline, a), within the spare capacity of baseline
CallerAppendBase ==
  \E a \in {NewPop} :
    /\ callerBase.len < callerBase.cap
    /\ mem' = [mem EXCEPT !.base[callerBase.len + 1] = a]
    /\ callerBase' = [callerBase EXCEPT !.len = callerBase.len + 1]
    /\ UNCHANGED <<c, c2, callerMem, ctor, last, ncalls>>

\* dashes[i] = v
CallerOverwriteDashes ==
  \E i \in 1..Len(callerMem.dashes), v \in Lengths :
    /\ callerMem' = [callerMem EXCEPT !.dashes[i] = v]
    /\ UNCHANGED <<c, c2, mem, callerBase, ctor, last, ncalls>>

\* path[i] = p
CallerOverwritePath ==
  \E i \in 1..Len(callerMem.path), p \in PathComps :
    /\ callerMem' = [callerMem EXCEPT !.path[i] = p]
    /\ UNCHANGED <<c, c2, mem, callerBase, ctor, last, ncalls>>

(***************************************************************************)
(* The second canvas, c2 = New(dpi, baseline) with the baseline slice that  *)
(* c was given.  The same methods run on it, on the memory seen with c2's   *)
(* own array in the place of c's.                                           *)
(***************************************************************************)
\* the arrays as the second canvas names them
SecondMem(m) == [base |-> m.base, own |-> m.own2, own2 |-> m.own]

Base2Val == SliceVal(c2.Base, SecondMem(mem))

Actions2Val == SliceVal(c2.Actions, SecondMem(mem))

SecondCall(a, site, avail) ==
  /\ ncalls < MaxCalls
  /\ ncalls' = ncalls + 1
  /\ LET r == append(c2, SecondMem(mem), a, CallStack(a.type, site), avail)
     IN /\ c2' = r.c
        /\ mem' = SecondMem(r.mem)
  /\ UNCHANGED <<c, callerBase, callerMem, ctor, last>>

SecondSetLineWidth ==
  \E w \in Widths, site \in {CallSite(ncalls + 1)} :
    SecondCall(NewSetWidth(w), site, TRUE)

SecondPop ==
  \E site \in {CallSite(ncalls + 1)} :
    SecondCall(NewPop, site, TRUE)

SecondReset ==
  /\ ResetInRange(c2)
  /\ LET r == Reset(c2, SecondMem(mem)) IN c2' = r.c /\ mem' = SecondMem(r.mem)
  /\ UNCHANGED <<c, callerBase, callerMem, ctor, last, ncalls>>

Next ==
  \/ SetLineWidth
  \/ SetLineDash
  \/ SetColor
  \/ Rotate
  \/ Translate
  \/ Scale
  \/ Push
  \/ Pop
  \/ Stroke
  \/ Fill
  \/ FillString
  \/ DPI
  \/ SetKeepCaller
  \/ DoReset

Spec == Init /\ [][Next]_vars

\* the canvas and a caller that writes to the baseline slice it gave to New
NextBase ==
  \/ Next
  \/ CallerOverwriteBase
  \/ CallerAppendBase

SpecBase == Init /\ [][NextBase]_vars

\* the canvas, KeepCaller left unset, driven through the primitives that take
\* a slice, and a caller that writes to those slices after the calls
NextArgs ==
  \/ SetLineDash
  \/ Stroke
  \/ Fill
  \/ DoReset
  \/ CallerOverwriteDashes
  \/ CallerOverwritePath

SpecArgs == Init /\ [][NextArgs]_vars

\* the two canvases made from one baseline slice, called in any order
NextSecond ==
  \/ SecondSetLineWidth
  \/ SecondPop
  \/ SecondReset

NextTwo ==
  \/ Next
  \/ NextSecond

SpecTwo == Init /\ [][NextTwo]_vars

(***************************************************************************)
(* Properties                                                               *)
(***************************************************************************)
\* the last method called on the canvas was a primitive
LastIsPrimitive == last.op \notin {"New", "Reset"}

LastEntry == ActionsVal[Len(ActionsVal)]

\* the name under which a primitive's record renders
PrimName(op) == IF op = "SetLineWidth" THEN "SetWidth" ELSE op

Min(a, b) == IF a <= b THEN a ELSE b

\* C1: the log is never shorter than the baseline and its first len(Base)
\* entries equal the entries of Base, in order.
C1_BaseIsPrefix ==
  /\ Len(ActionsVal) >= Len(BaseVal)
  /\ \A i \in 1..Len(BaseVal) : ActionsVal[i] = BaseVal[i]

\* a reset between two calls, on a canvas with a baseline and KeepCaller set
C1_Witness ==
  /\ Len(BaseVal) >= 1
  /\ ncalls = MaxCalls
  /\ Len(ActionsVal) = Len(BaseVal) + 1
  /\ c.KeepCaller

\* the record e holds exactly the arguments args of a call of the primitive op
HoldsCall(op, args, e) ==
  CASE op = "SetLineWidth" -> e.type = "SetWidth" /\ e.Length = args.w
    [] op = "SetLineDash" ->
         /\ e.type = "SetLineDash"
         /\ Deref(e.Dashes, callerMem) = args.dashes
         /\ e.Offsets = args.offs
    [] op = "SetColor" -> e.type = "SetColor" /\ e.Color = args.col
    [] op = "Rotate" -> e.type = "Rotate" /\ e.Angle = args.a
    [] op = "Translate" -> e.type = "Translate" /\ e.X = args.x /\ e.Y = args.y
    [] op = "Scale" -> e.type = "Scale" /\ e.X = args.x /\ e.Y = args.y
    [] op = "Push" -> e.type = "Push"
    [] op = "Pop" -> e.type = "Pop"
    [] op = "Stroke" -> e.type = "Stroke" /\ Deref(e.Path, callerMem) = args.path
    [] op = "Fill" -> e.type = "Fill" /\ Deref(e.Path, callerMem) = args.path
    [] op = "FillString" ->
         /\ e.type = "FillString"
         /\ e.Font = args.font.name
         /\ e.Size = args.font.Size
         /\ e.X = args.x
         /\ e.Y = args.y
         /\ e.String = args.str
    [] op = "DPI" -> e.type = "DPI"
    [] OTHER -> FALSE

\* C2: a primitive call makes the log one entry longer, leaves the entries
\* that were there where they were, and its new last entry is the record of
\* that primitive with the arguments of the call.
C2_SingleAppend ==
  [][ncalls' = ncalls + 1 =>
       /\ Len(ActionsVal') = Len(ActionsVal) + 1
       /\ SubSeq(ActionsVal', 1, Len(ActionsVal)) = ActionsVal
       /\ HoldsCall(last'.op, last'.args, LastEntry')]_vars

\* two calls in a row, the second one Translate, after the log moved to its
\* own array
C2_Witness ==
  /\ last.op = "Translate"
  /\ Len(ActionsVal) = Len(BaseVal) + MaxCalls
  /\ c.Actions.arr = "own"
  /\ LastEntry.Y = 2

\* C3: Reset makes the log equal to Base, and a Reset that follows a Reset
\* with no primitive call in between leaves the log as it was.
C3_Reset ==
  [][last'.op = "Reset" =>
       /\ ActionsVal' = BaseVal'
       /\ last.op = "Reset" => ActionsVal' = ActionsVal]_vars

\* a reset after the calls, on a canvas with a baseline whose log had moved
\* to its own array
C3_Witness ==
  /\ last.op = "Reset"
  /\ ncalls = MaxCalls
  /\ c.Actions.arr = "own"
  /\ Len(BaseVal) >= 1
  /\ c.Actions.cap > c.Actions.len


\* C4 (as claimed): a write by the caller to the baseline slice it gave to
\* New, to one of its elements or by an append within its spare capacity,
\* changes neither Base nor any entry of Actions.
C4_BaselineCopied ==
  [][(CallerOverwriteBase \/ CallerAppendBase) =>
       BaseVal' = BaseVal /\ ActionsVal' = ActionsVal]_vars

\* C5 (as claimed): the rendering of the record appended by a primitive
\* called with KeepCaller unset starts with the primitive's name and "(".
C5_NoPrefix ==
  (LastIsPrimitive /\ ~last.keep) =>
    LET t == VgCall(LastEntry, callerMem)
    IN t[1] = PrimName(last.op) /\ t[2] = "("

\* C6 (as claimed): the rendering of the record appended by a primitive
\* called with KeepCaller set and the stack available is the caller's file,
\* ":", its line and one space, then the primitive's name and "(".
C6_StampPrefix ==
  (LastIsPrimitive /\ last.keep /\ last.avail) =>
    LET t == VgCall(LastEntry, callerMem)
    IN SubSeq(t, 1, 6) =
         <<last.site.file, ":", ToString(last.site.line), " ", PrimName(last.op), "(">>

\* C7: no step changes the stamp or the rendering of a record that stays in
\* the log, whatever KeepCaller is set to, and no step changes or stamps the
\* records of Base.
C7_StampsKept ==
  [][/\ BaseVal' = BaseVal
     /\ \A i \in 1..Len(BaseVal') : ~BaseVal'[i].cr.haveCaller
     /\ \A i \in 1..Min(Len(ActionsVal), Len(ActionsVal')) :
          /\ ActionsVal'[i].cr = ActionsVal[i].cr
          /\ VgCall(ActionsVal'[i], callerMem') = VgCall(ActionsVal[i], callerMem)]_vars

\* an unstamped baseline record and an unstamped appended record, then a
\* stamped one, with KeepCaller unset again
C7_Witness ==
  /\ Len(BaseVal) = 1
  /\ Len(ActionsVal) = Len(BaseVal) + MaxCalls
  /\ ~ActionsVal[2].cr.haveCaller
  /\ ActionsVal[3].cr.haveCaller
  /\ ~c.KeepCaller

\* C8: right after New(d, B) the log equals B; the stored Resolution is d in
\* every state; a DPI call appends one DPI record and returns d.
C8_DPI ==
  /\ ActionsVal = ctor.baseline
  /\ [](c.Resolution = ctor.dpi)
  /\ [][(ncalls' = ncalls + 1 /\ last'.op = "DPI") =>
          /\ Len(ActionsVal') = Len(ActionsVal) + 1
          /\ SubSeq(ActionsVal', 1, Len(ActionsVal)) = ActionsVal
          /\ LastEntry'.type = "DPI"
          /\ last'.ret = ctor.dpi]_vars

\* a DPI call answering 96 after a call and a reset
C8_Witness ==
  /\ last.op = "DPI"
  /\ last.ret = 96
  /\ ncalls = MaxCalls
  /\ Len(ActionsVal) = Len(BaseVal) + 1
  /\ LastEntry.type = "DPI"

\* the contents of the slice a record holds
Held(e) ==
  CASE e.type = "SetLineDash" -> Deref(e.Dashes, callerMem)
    [] e.type \in {"Stroke", "Fill"} -> Deref(e.Path, callerMem)
    [] OTHER -> <<>>

\* C9: a write by the caller to an element of the dash or path slice it gave
\* to SetLineDash, Stroke or Fill changes neither the slice held by a
\* recorded entry nor the entry's rendering.
C9_DefensiveCopy ==
  [][(CallerOverwriteDashes \/ CallerOverwritePath) =>
       \A i \in 1..Len(ActionsVal) :
         /\ Held(ActionsVal[i])' = Held(ActionsVal[i])
         /\ VgCall(ActionsVal'[i], callerMem') = VgCall(ActionsVal[i], callerMem)]_vars

\* the log holds a SetLineDash and a Stroke record whose slices differ from
\* what the caller's arrays hold now
C9_Witness ==
  /\ Len(ActionsVal) = Len(BaseVal) + 2
  /\ \E i, j \in 1..Len(ActionsVal) :
       /\ ActionsVal[i].type = "SetLineDash"
       /\ ActionsVal[i].Dashes.len = 2
       /\ Held(ActionsVal[i]) # callerMem.dashes
       /\ ActionsVal[j].type = "Stroke"
       /\ ActionsVal[j].Path.len = 1
       /\ Held(ActionsVal[j]) # callerMem.path

\* C10 (as claimed): a primitive called with KeepCaller set while the stack
\* is unavailable appends one record, the record has no stamp and its
\* rendering starts with the primitive's name.
C10_SilentFallback ==
  [][(ncalls' = ncalls + 1 /\ last'.keep /\ ~last'.avail) =>
       /\ Len(ActionsVal') = Len(ActionsVal) + 1
       /\ ~LastEntry'.cr.haveCaller
       /\ VgCall(LastEntry', callerMem')[1] = PrimName(last'.op)]_vars

\* the slices s and t have cells of one backing array in common
SharesArray(s, t) == s.arr # "nil" /\ s.arr = t.arr /\ s.cap > 0 /\ t.cap > 0

\* C11 (as claimed): after a Reset c.Actions and c.Base do not share a
\* backing array, and no primitive call changes the length or an element of
\* c.Base.
C11_IndependentStorage ==
  /\ [](last.op = "Reset" => ~SharesArray(c.Actions, c.Base))
  /\ [][ncalls' = ncalls + 1 => BaseVal' = BaseVal /\ c.Base' = c.Base]_vars

\* C12 (as claimed): a call on one of two canvases made from the same
\* baseline slice changes no entry of the other canvas's Actions or Base.
C12_CanvasesIndependent ==
  [][/\ Next => Actions2Val' = Actions2Val /\ Base2Val' = Base2Val
     /\ NextSecond => ActionsVal' = ActionsVal /\ BaseVal' = BaseVal]_vars

\* a primitive of the canvas can be called
PrimitivesEnabled ==
  /\ ENABLED SetLineWidth
  /\ ENABLED SetLineDash
  /\ ENABLED SetColor
  /\ ENABLED Rotate
  /\ ENABLED Translate
  /\ ENABLED Scale
  /\ ENABLED Push
  /\ ENABLED Pop
  /\ ENABLED Stroke
  /\ ENABLED Fill
  /\ ENABLED FillString
  /\ ENABLED DPI

\* C13: in every state reachable from New by primitive calls, KeepCaller
\* toggles and Resets, Reset can run (its truncation Actions[:len(Base)] is
\* in range, as len(Base) <= len(Actions)) and so can every primitive (as
\* long as the model's bound on the number of calls allows one more).
C13_NoFailure ==
  /\ c.Base.len <= c.Actions.len
  /\ ResetInRange(c)
  /\ ENABLED DoReset
  /\ ENABLED SetKeepCaller
  /\ ncalls < MaxCalls => PrimitivesEnabled

\* a Reset that truncated a log grown from a nil baseline, with more calls
\* still possible
C13_Witness ==
  /\ last.op = "Reset"
  /\ c.Base.arr = "nil"
  /\ c.Actions.arr = "own"
  /\ c.Actions.len = 0
  /\ ncalls >= 1
  /\ ncalls < MaxCalls

\* C14: the record appended by a primitive called with KeepCaller set (and
\* the stack available) is stamped with the file and line of the frame three
\* levels above the capturer: below it are the capturer's frame, that of
\* Canvas.append and that of the primitive, all in recorder.go, and the frame
\* itself is the external code that called the primitive.
C14_StampIsExternalCaller ==
  (LastIsPrimitive /\ last.keep /\ last.avail) =>
    LET e  == LastEntry
        st == CallStack(e.type, last.site)
    IN /\ e.type = PrimName(last.op)
       /\ e.cr = [haveCaller |-> TRUE, file |-> st[4].file, line |-> st[4].line]
       /\ st[4] = last.site
       /\ st[4].file # "recorder.go"
       /\ st[1] = [file |-> "recorder.go", line |-> 50]
       /\ st[2] = [file |-> "recorder.go", line |-> 77]
       /\ st[3] = [file |-> "recorder.go", line |-> AppendLine[e.type]]

\* a stamped DPI record appended by the second call, after an unstamped one
C14_Witness ==
  /\ last.op = "DPI"
  /\ last.keep
  /\ last.avail
  /\ ncalls = 2
  /\ Len(ActionsVal) = Len(BaseVal) + 2
  /\ LastEntry.cr = [haveCaller |-> TRUE, file |-> "recorder_test.go", line |-> 18]
  /\ ~ActionsVal[Len(ActionsVal) - 1].cr.haveCaller

====
